---------------------------- MODULE Spec2Model ----------------------------
(***************************************************************************)
(* A model of migrate.py: the WordPress export -> microCMS migration.      *)
(*                                                                         *)
(* One run of main() is a sequence of steps: the constructor (settings and *)
(* their validation), parse_wordpress_xml, then one creation request per   *)
(* record inside upload_to_microcms, then the summary.  Python values: a   *)
(* text is a sequence of one-character strings; None and NoElem (what      *)
(* find() returns for an element that is not there) are one-element        *)
(* sequences that are no text.                                             *)
(***************************************************************************)
EXTENDS Naturals, Sequences, FiniteSets, TLC

VARIABLES
    pc,             \* the position of main()'s single thread
    env,            \* the five settings as os.getenv returned them
    xml_exists,     \* os.path.exists(self.xml_file)
    root,           \* the parsed tree: local to parse_wordpress_xml
    posts,          \* the records parse_wordpress_xml built
    k,              \* upload_to_microcms: index of the record of the for loop
    success_count,
    failed_count,
    response,       \* status_code of the response being classified
    requests,       \* the creation requests issued so far (their JSON payloads)
    outcomes,       \* what requests.post did for each of them, in order
    events,         \* "request" and "sleep", in the order they happened
    error,          \* the exception in flight, or the one main() reported
    raised_at,      \* the item whose extraction raised it (0: no item)
    exit_status,    \* the process's exit status
    text,           \* clean_content's argument       (SpecClean)
    once,           \* clean_content(text)            (SpecClean)
    twice           \* clean_content(once)            (SpecClean)

vars == <<pc, env, xml_exists, root, posts, k, success_count, failed_count,
          response, requests, outcomes, events, error, raised_at,
          exit_status, text, once, twice>>

runVars == <<pc, env, xml_exists, root, posts, k, success_count, failed_count,
             response, requests, outcomes, events, error, raised_at,
             exit_status>>

cleanVars == <<text, once, twice>>

\* ---------------------------------------------------------------- bounds
MaxItems == 4       \* items of an export document
MaxLen == 4         \* characters of an enumerated body text

\* ---------------------------------------------------------------- values
None == <<"None">>
NoElem == <<"NoElem">>
TypeError == <<"TypeError">>
Unset == <<"unset">>

Range(s) == {s[i] : i \in 1..Len(s)}

\* The texts of length n over the alphabet S.
TextsOver(S, n) == UNION {[1..m -> S] : m \in 0..n}

\* ------------------------------------------------ html.unescape (line 89)
\* The characters of the texts the model enumerates.  "#" is left out, so the
\* numeric alternatives of the reference pattern never match.
Chars == {"&", ";", "a", "m", "p", " "}

\* The characters that end a reference's name:  [^\t\n\f <&#;]
NameStop == {"\t", "\n", "\f", " ", "<", "&", "#", ";"}

\* Longest name the pattern takes:  {1,32}
MaxNameLen == 32

\* html.entities.html5 restricted to the names spelled with a, m, p and ";".
html5 ==
    (<<"a", "m", "p">>      :> <<"&">>) @@
    (<<"a", "m", "p", ";">> :> <<"&">>) @@
    (<<"a", "p", ";">>      :> <<"U+2248">>) @@
    (<<"m", "a", "p", ";">> :> <<"U+21A6">>) @@
    (<<"m", "p", ";">>      :> <<"U+2213">>) @@
    (<<"p", "m", ";">>      :> <<"U+00B1">>)

\* How many name characters follow position i-1 (greedy, at most MaxNameLen).
RECURSIVE NameLen(_, _, _)
NameLen(s, i, n) ==
    IF i > Len(s) \/ n = MaxNameLen \/ s[i] \in NameStop
    THEN n
    ELSE NameLen(s, i + 1, n + 1)

\* _replace_charref's search "for x in range(len(s)-1, 1, -1)".
RECURSIVE LongestPrefix(_, _)
LongestPrefix(ref, x) ==
    IF x <= 1 THEN 0
    ELSE IF SubSeq(ref, 1, x) \in DOMAIN html5 THEN x
    ELSE LongestPrefix(ref, x - 1)

\* _replace_charref for a named reference (ref: the name, with its ";" if any).
replace_charref(ref) ==
    IF ref \in DOMAIN html5 THEN html5[ref]
    ELSE LET x == LongestPrefix(ref, Len(ref) - 1)
         IN  IF x > 0
             THEN html5[SubSeq(ref, 1, x)] \o SubSeq(ref, x + 1, Len(ref))
             ELSE <<"&">> \o ref

\* _charref.sub(_replace_charref, s), scanning from position i.
RECURSIVE charref_sub(_, _)
charref_sub(s, i) ==
    IF i > Len(s) THEN <<>>
    ELSE IF s[i] # "&" THEN <<s[i]>> \o charref_sub(s, i + 1)
    ELSE LET n == NameLen(s, i + 1, 0)
             semi == IF i + n + 1 <= Len(s) /\ s[i + n + 1] = ";" THEN 1 ELSE 0
         IN  IF n = 0
             THEN <<"&">> \o charref_sub(s, i + 1)
             ELSE replace_charref(SubSeq(s, i + 1, i + n + semi))
                      \o charref_sub(s, i + n + semi + 1)

\* html.unescape.  '&' not in None raises TypeError.
unescape(s) ==
    IF s = None THEN TypeError
    ELSE IF "&" \notin Range(s) THEN s
    ELSE charref_sub(s, 1)

\* The mutant of clean_content: the "if content" guard forgotten.
clean_content_unguarded(content) == unescape(content)

\* clean_content (lines 86-90): "if content" is false for None and for "".
clean_content(content) ==
    IF content # None /\ content # <<>> THEN unescape(content) ELSE content

\* The body of the documented scenario, "A &amp; B", and its decoded form.
ExampleBody == <<"A", " ", "&", "a", "m", "p", ";", " ", "B">>
ExampleDecoded == <<"A", " ", "&", " ", "B">>

\* Longer texts than MaxLen allows: twice-encoded and legacy references.
SampleTexts ==
    { ExampleBody,
      <<"&", "a", "m", "p", ";", "a", "m", "p", ";">>,
      <<"&", "a", "m", "p", "a", "m", "p">>,
      <<"&", "a", "m", "p", ";", "a", "p", ";">>,
      <<"&", "&", "a", "m", "p", ";">>,
      <<"&", "m", "a", "p", ";", "&", "p", "m", ";">> }

\* clean_content's inputs: None, and the texts.
Contents == {None} \cup TextsOver(Chars, MaxLen) \cup SampleTexts

\* ------------------------------------------- settings (lines 17-56)
Settings == {"WP_XML_FILE", "MICROCMS_DOMAIN", "MICROCMS_API_KEY",
             "MICROCMS_CONTENT_API_PATH", "MICROCMS_MEDIA_API_PATH"}

\* What os.getenv returns: None (not set), "" (set and empty), or a value.
SetValue == <<"x">>
EnvValues == {None, <<>>, SetValue}
Envs == [Settings -> EnvValues]

\* The mutant of Falsy: only an absent setting counts, an empty one passes.
FalsyNoneOnly(value) == value = None

\* "not value" (line 49) for a str or None.
Falsy(value) == value = None \/ value = <<>>

\* missing_vars (line 49)
missing_vars(e) == {var \in Settings : Falsy(e[var])}

\* _validate_config (lines 39-56): the exception it raises, or "none".
validate_config(e, exists) ==
    IF missing_vars(e) # {} THEN "ValueError"
    ELSE IF ~exists THEN "FileNotFoundError"
    ELSE "none"

\* ------------------------------------- the export document (lines 58-84)
POST == <<"p", "o", "s", "t">>
PAGE == <<"p", "a", "g", "e">>
PUBLISH == <<"p", "u", "b", "l", "i", "s", "h">>
PUBLISHED == <<"p", "u", "b", "l", "i", "s", "h", "e", "d">>
DRAFT == <<"d", "r", "a", "f", "t">>
DateText == <<"2", "0", "2", "0">>
Present == <<"present">>

\* The shapes of item the model draws: what find() gives for wp:post_type,
\* wp:status, title, content:encoded and wp:post_date (the element's text, None
\* for an empty element, NoElem for no element).
Shape(t, s, ti, c, d) ==
    [post_type |-> t, status |-> s, title |-> ti, content |-> c, date |-> d]

ItemShapes ==
    { Shape(POST, PUBLISH, Present, ExampleBody, DateText),
      Shape(POST, PUBLISH, Present, None, DateText),
      Shape(POST, DRAFT, Present, ExampleBody, DateText),
      Shape(POST, PUBLISHED, Present, ExampleBody, DateText),
      Shape(PAGE, PUBLISH, Present, ExampleBody, DateText),
      Shape(NoElem, PUBLISH, Present, ExampleBody, DateText),
      Shape(POST, NoElem, Present, ExampleBody, DateText),
      Shape(POST, PUBLISH, NoElem, ExampleBody, DateText),
      Shape(POST, PUBLISH, Present, NoElem, DateText),
      Shape(POST, PUBLISH, Present, ExampleBody, NoElem) }

\* The title of the item at position i of its document: titles tell the items
\* of a document apart.
TitleAt(i) == <<"T", ToString(i)>>

\* An export document: its items in document order.
Document(shapes) ==
    [i \in 1..Len(shapes) |->
        [shapes[i] EXCEPT !.title = IF @ = NoElem THEN NoElem ELSE TitleAt(i)]]

\* What ET.parse can find in the export file: a document that is not
\* well-formed, or a tree with its items.  NoTree: nothing parsed (yet).
Malformed == [parsed |-> "not well-formed", items |-> <<>>]
Tree(items) == [parsed |-> "tree", items |-> items]
NoTree == [parsed |-> "nothing", items |-> <<>>]

Trees ==
    {Malformed} \cup {Tree(Document(s)) : s \in TextsOver(ItemShapes, MaxItems)}

\* The mutant of Included: the status marker is not looked at.
IncludedAnyStatus(item) ==
    item.post_type # NoElem /\ item.post_type = POST

\* The condition of line 74.
Included(item) ==
    /\ item.post_type # NoElem /\ item.post_type = POST
    /\ item.status # NoElem /\ item.status = PUBLISH

\* Lines 75-81: .text of an element find() did not find raises AttributeError.
\* categories and tags (findall: a list, possibly empty) cannot raise and are
\* sent nowhere; they are not modelled.
Extractable(item) ==
    item.title # NoElem /\ item.content # NoElem /\ item.date # NoElem

\* The mutant of ItemStep: a record with an element missing is skipped.
ItemStepLenient(item) ==
    IF Included(item) /\ Extractable(item) THEN "append" ELSE "skip"

\* The mutant of ItemStep: the markers are read without the "is not None"
\* tests, so an item lacking one raises (.text of None).
ItemStepStrict(item) ==
    IF item.post_type = NoElem \/ item.status = NoElem THEN "raise"
    ELSE IF ~Included(item) THEN "skip"
    ELSE IF Extractable(item) THEN "append"
    ELSE "raise"

\* One iteration of the loop of lines 70-82.
ItemStep(item) ==
    IF ~Included(item) THEN "skip"
    ELSE IF Extractable(item) THEN "append"
    ELSE "raise"

PostOf(item) ==
    [title |-> item.title, content |-> item.content, date |-> item.date]

\* The loop of lines 69-84 from item i on, ps being the records built so far.
RECURSIVE parse_items(_, _, _)
parse_items(items, i, ps) ==
    IF i > Len(items) THEN [error |-> "none", at |-> 0, posts |-> ps]
    ELSE CASE ItemStep(items[i]) = "skip" -> parse_items(items, i + 1, ps)
           [] ItemStep(items[i]) = "append" ->
                  parse_items(items, i + 1, Append(ps, PostOf(items[i])))
           [] OTHER -> [error |-> "AttributeError", at |-> i, posts |-> ps]

\* parse_wordpress_xml (lines 58-84) on what ET.parse found.
parse_wordpress_xml(tree) ==
    IF tree = Malformed
    THEN [error |-> "ParseError", at |-> 0, posts |-> <<>>]
    ELSE parse_items(tree.items, 1, <<>>)

\* ------------------------------------------------ the run (lines 92-149)
\* What requests.post does (lines 107-111): a response with its status code
\* (201, or another one: 200 and 500 stand for those), or an exception
\* (connection error, timeout).
Created == 201
OK == 200
ServerError == 500
Fault == 0          \* no response: requests.post raised
Outcomes == {Created, OK, ServerError, Fault}

\* What a print does: it writes, or it raises (OSError, UnicodeEncodeError).
Reliable == {"written"}
Unreliable == {"written", "raised"}

NoEnv == [var \in Settings |-> Unset]

RunInit ==
    /\ pc = "main"
    /\ env = NoEnv
    /\ xml_exists = FALSE
    /\ root = NoTree
    /\ posts = <<>>
    /\ k = 0
    /\ success_count = 0
    /\ failed_count = 0
    /\ response = Fault
    /\ requests = <<>>
    /\ outcomes = <<>>
    /\ events = <<>>
    /\ error = "none"
    /\ raised_at = 0
    /\ exit_status = Unset

CleanIdle == text = Unset /\ once = Unset /\ twice = Unset

Init == RunInit /\ CleanIdle

\* An exception leaves the frame for main()'s handler (line 147).
Raise(e) == pc' = "main_except" /\ error' = e

\* main, line 145: WPToMicroCMSMigration() reads the settings (lines 21-34)
\* and validates them (lines 37, 39-56).
main_construct ==
    /\ pc = "main"
    /\ \E e \in Envs, exists \in BOOLEAN :
          /\ env' = e
          /\ xml_exists' = exists
          /\ IF validate_config(e, exists) # "none"
             THEN Raise(validate_config(e, exists))
             ELSE pc' = "migrate" /\ error' = error
    /\ UNCHANGED <<root, posts, k, success_count, failed_count, response,
                   requests, outcomes, events, raised_at, exit_status>>
    /\ UNCHANGED cleanVars

\* migrate, lines 131-132: the first progress line, then parse_wordpress_xml
\* up to its return statement (line 84), or to the exception it raises.
migrate_parse(console) ==
    /\ pc = "migrate"
    /\ \E c \in console, tree \in Trees :
          IF c = "raised"
          THEN Raise("ConsoleError") /\ UNCHANGED <<root, posts, raised_at>>
          ELSE LET r == parse_wordpress_xml(tree)
               IN  /\ root' = tree
                   /\ posts' = r.posts
                   /\ raised_at' = r.at
                   /\ IF r.error # "none"
                      THEN Raise(r.error)
                      ELSE pc' = "parse_return" /\ error' = error
    /\ UNCHANGED <<env, xml_exists, k, success_count, failed_count, response,
                   requests, outcomes, events, exit_status>>
    /\ UNCHANGED cleanVars

\* Lines 84, 133-136, 94-95: parse_wordpress_xml returns (its tree goes out of
\* scope), migrate prints two lines and upload_to_microcms starts its loop.
upload_start(console) ==
    /\ pc = "parse_return"
    /\ root' = NoTree
    /\ \E c \in console :
          IF c = "raised"
          THEN Raise("ConsoleError") /\ UNCHANGED <<k, success_count, failed_count>>
          ELSE /\ pc' = "upload_loop"
               /\ k' = 1
               /\ success_count' = 0
               /\ failed_count' = 0
               /\ error' = error
    /\ UNCHANGED <<env, xml_exists, posts, response, requests, outcomes,
                   events, raised_at, exit_status>>
    /\ UNCHANGED cleanVars

\* The payload of lines 99-105.
Payload(post) == [title |-> post.title, body |-> clean_content(post.content)]

\* Lines 97-111: the next record's payload is built and sent; requests.post
\* returns a response or raises.
upload_request ==
    /\ pc = "upload_loop"
    /\ k <= Len(posts)
    /\ \E o \in Outcomes :
          /\ requests' = Append(requests, Payload(posts[k]))
          /\ outcomes' = Append(outcomes, o)
          /\ events' = Append(events, "request")
          /\ IF o = Fault
             THEN pc' = "upload_except" /\ response' = response
             ELSE pc' = "upload_classify" /\ response' = o
    /\ UNCHANGED <<env, xml_exists, root, posts, k, success_count, failed_count,
                   error, raised_at, exit_status>>
    /\ UNCHANGED cleanVars

\* The mutant of IsSuccess: every 2xx status counts as created.
IsSuccessAny2xx(status) == status \in {Created, OK}

\* Line 113.
IsSuccess(status) == status = Created

\* Lines 113-119: the response is counted, then reported (one print for a
\* 201, two for another status); a print that raises leaves for line 123.
upload_classify(console) ==
    /\ pc = "upload_classify"
    /\ IF IsSuccess(response)
       THEN success_count' = success_count + 1 /\ failed_count' = failed_count
       ELSE failed_count' = failed_count + 1 /\ success_count' = success_count
    /\ \E c \in console :
          pc' = IF c = "raised" THEN "upload_except" ELSE "upload_sleep"
    /\ UNCHANGED <<env, xml_exists, root, posts, k, response, requests,
                   outcomes, events, error, raised_at, exit_status>>
    /\ UNCHANGED cleanVars

\* Line 121: time.sleep(1), then the loop's next record.
upload_sleep ==
    /\ pc = "upload_sleep"
    /\ events' = Append(events, "sleep")
    /\ k' = k + 1
    /\ pc' = "upload_loop"
    /\ UNCHANGED <<env, xml_exists, root, posts, success_count, failed_count,
                   response, requests, outcomes, error, raised_at, exit_status>>
    /\ UNCHANGED cleanVars

\* The mutant of upload_except: the handler reports and re-raises.
upload_except_reraise(console) ==
    /\ pc = "upload_except"
    /\ failed_count' = failed_count + 1
    /\ Raise("RequestException")
    /\ UNCHANGED <<env, xml_exists, root, posts, k, success_count, response,
                   requests, outcomes, events, raised_at, exit_status>>
    /\ UNCHANGED cleanVars

\* The mutant of upload_except: the failed record is tried again.
upload_except_retry(console) ==
    /\ pc = "upload_except"
    /\ failed_count' = failed_count + 1
    /\ pc' = "upload_loop"
    /\ UNCHANGED <<env, xml_exists, root, posts, k, success_count, response,
                   requests, outcomes, events, error, raised_at, exit_status>>
    /\ UNCHANGED cleanVars

\* Lines 123-125: the handler counts a failure and prints; a print that raises
\* here is outside every try of upload_to_microcms and reaches main().
upload_except(console) ==
    /\ pc = "upload_except"
    /\ failed_count' = failed_count + 1
    /\ \E c \in console :
          IF c = "raised"
          THEN Raise("ConsoleError") /\ k' = k
          ELSE pc' = "upload_loop" /\ k' = k + 1 /\ error' = error
    /\ UNCHANGED <<env, xml_exists, root, posts, success_count, response,
                   requests, outcomes, events, raised_at, exit_status>>
    /\ UNCHANGED cleanVars

\* Lines 97, 127, 136: the loop is over; upload_to_microcms returns
\* (success_count, failed_count) to migrate.
upload_return ==
    /\ pc = "upload_loop"
    /\ k > Len(posts)
    /\ pc' = "summary"
    /\ UNCHANGED <<env, xml_exists, root, posts, k, success_count, failed_count,
                   response, requests, outcomes, events, error, raised_at,
                   exit_status>>
    /\ UNCHANGED cleanVars

\* Lines 138-141 and main's return: the summary is printed and the process
\* ends with status 0.
migrate_summary(console) ==
    /\ pc = "summary"
    /\ \E c \in console :
          IF c = "raised"
          THEN Raise("ConsoleError") /\ exit_status' = exit_status
          ELSE pc' = "done" /\ exit_status' = <<"0">> /\ error' = error
    /\ UNCHANGED <<env, xml_exists, root, posts, k, success_count, failed_count,
                   response, requests, outcomes, events, raised_at>>
    /\ UNCHANGED cleanVars

\* Lines 147-149: main reports the exception and exits with status 1 (as the
\* interpreter does if the report itself raises).  The traceback, which kept
\* the raising frame's locals, goes with it.
main_except ==
    /\ pc = "main_except"
    /\ pc' = "exited"
    /\ exit_status' = <<"1">>
    /\ root' = NoTree
    /\ UNCHANGED <<env, xml_exists, posts, k, success_count, failed_count,
                   response, requests, outcomes, events, error, raised_at>>
    /\ UNCHANGED cleanVars

Run(console) ==
    \/ main_construct
    \/ migrate_parse(console)
    \/ upload_start(console)
    \/ upload_request
    \/ upload_classify(console)
    \/ upload_sleep
    \/ upload_except(console)
    \/ upload_return
    \/ migrate_summary(console)
    \/ main_except

\* The run with a console that always writes.
Next == Run(Reliable)

Spec == Init /\ [][Next]_vars

\* The run with a console whose writes may raise.
NextConsole == Run(Unreliable)

SpecConsole == Init /\ [][NextConsole]_vars

\* -------------------------------------- clean_content alone (lines 86-90)
CleanInit ==
    /\ RunInit
    /\ text \in Contents
    /\ once = Unset
    /\ twice = Unset

\* clean_content applied to the drawn content.
clean_once ==
    /\ once = Unset
    /\ once' = clean_content(text)
    /\ UNCHANGED <<text, twice>>
    /\ UNCHANGED runVars

\* clean_content applied to its own result.
clean_twice ==
    /\ once # Unset
    /\ twice = Unset
    /\ twice' = clean_content(once)
    /\ UNCHANGED <<text, once>>
    /\ UNCHANGED runVars

NextClean == clean_once \/ clean_twice

SpecClean == CleanInit /\ [][NextClean]_vars

\* ================================================================ claims
Titles(seq) == [j \in 1..Len(seq) |-> seq[j].title]

\* The positions of the records of the outcomes that satisfy P.
Created201(os) == {j \in 1..Len(os) : os[j] = Created}
NotCreated(os) == {j \in 1..Len(os) : os[j] # Created}

Aborted == pc \in {"main_except", "exited"}
Returned == pc \in {"summary", "done"}

\* C1: when upload_to_microcms returns, successCount + failedCount is the
\* number of records, whatever each record's step met: a 201, another status,
\* or a fault raised anywhere inside the step.
C1_CountsSumToRecords ==
    pc = "summary" => success_count + failed_count = Len(posts)

\* What each record adds to (success, failed), from its own outcome alone.
RECURSIVE Tally(_)
Tally(os) ==
    IF os = <<>> THEN <<0, 0>>
    ELSE LET rest == Tally(Tail(os))
         IN  IF Head(os) = Created
             THEN <<rest[1] + 1, rest[2]>>
             ELSE <<rest[1], rest[2] + 1>>

\* C2: failure isolation.  A record whose request raised, or was answered
\* with a status other than 201, never aborts the run; every record after it
\* is still sent; and at each turn of the loop the two counters are the sum
\* of what each record sent so far adds on account of its own outcome.
C2_FailureIsolation ==
    /\ NotCreated(outcomes) # {} => ~Aborted
    /\ pc \in {"upload_loop", "summary", "done"} =>
          <<success_count, failed_count>> = Tally(outcomes)
    /\ Returned => Len(requests) = Len(posts) /\ Len(outcomes) = Len(posts)

\* C2's case: the first record's request raised, the second was answered 500,
\* the third was created, and the run ended normally.
C2_Witness ==
    /\ pc = "done"
    /\ Len(outcomes) = 3
    /\ outcomes[1] = Fault /\ outcomes[2] = ServerError /\ outcomes[3] = Created
    /\ success_count = 1 /\ failed_count = 2

\* The items of a tree that are posts with the given status.
PostsWithStatus(tree, status) ==
    {i \in 1..Len(tree.items) :
        tree.items[i].post_type = POST /\ tree.items[i].status = status}

\* C3, as stated: the returned sequence has as many records as there are items
\* of type "post" and status "published".
C3_LengthCountsPublished ==
    pc = "parse_return" => Len(posts) = Cardinality(PostsWithStatus(root, PUBLISHED))

\* C3, amended: the returned sequence has as many records as there are items
\* of type "post" and status "publish", and every record is such an item; an
\* item failing either test is in no record.
C3_LengthCountsPublish ==
    pc = "parse_return" =>
        /\ Len(posts) = Cardinality(PostsWithStatus(root, PUBLISH))
        /\ \A i \in 1..Len(root.items) :
              (\E j \in 1..Len(posts) : posts[j].title = TitleAt(i))
                  <=> i \in PostsWithStatus(root, PUBLISH)

\* C3's case: three published posts and a draft give three records.
C3_Witness ==
    /\ pc = "parse_return"
    /\ Len(root.items) = 4
    /\ Cardinality(PostsWithStatus(root, PUBLISH)) = 3
    /\ Cardinality(PostsWithStatus(root, DRAFT)) = 1
    /\ Len(posts) = 3

\* The position in its document of the item with this title.
PositionOf(title) == CHOOSE i \in 1..MaxItems : TitleAt(i) = title

\* C4: the creation requests are the surviving items in document order: the
\* records come out of the parse in document order, the requests issued so
\* far are the first records in that order, each answered (or failed) before
\* the next is issued, none issued twice; a run that returns has issued them
\* all.
C4_RequestsInDocumentOrder ==
    /\ pc = "parse_return" =>
          \A a, b \in 1..Len(posts) :
              a < b => PositionOf(posts[a].title) < PositionOf(posts[b].title)
    /\ Len(requests) <= Len(posts)
    /\ \A j \in 1..Len(requests) : requests[j].title = posts[j].title
    /\ \A a, b \in 1..Len(requests) :
          a < b => PositionOf(requests[a].title) < PositionOf(requests[b].title)
    /\ Len(outcomes) = Len(requests)
    /\ Returned => Titles(requests) = Titles(posts)

\* C4's case: a failed first record and a second one, both requested once.
C4_Witness ==
    /\ pc = "done"
    /\ Len(posts) = 3
    /\ outcomes[1] = Fault /\ outcomes[2] = ServerError
    /\ Titles(requests) = Titles(posts)

\* C5: whatever a record's outcome, the pause is executed before the next
\* request: no two requests follow one another without a sleep between them.
C5_PauseBetweenRequests ==
    \A j \in 1..Len(events) :
        (j < Len(events) /\ events[j] = "request") => events[j + 1] = "sleep"

\* The settings have been read and one is missing or empty, or the export
\* file is not there.
BadConfiguration ==
    /\ env # NoEnv
    /\ \/ \E var \in Settings : env[var] = None \/ env[var] = <<>>
       \/ ~xml_exists

ConfigurationErrors == {"ValueError", "FileNotFoundError"}

\* C6: with a required setting missing or empty, or no export file, the run
\* aborts with a configuration error and exit status 1, nothing parsed and no
\* request issued.
C6_BadConfigurationAborts ==
    BadConfiguration =>
        /\ Aborted
        /\ error \in ConfigurationErrors
        /\ root = NoTree /\ posts = <<>>
        /\ requests = <<>> /\ events = <<>>
        /\ pc = "exited" => exit_status = <<"1">>

\* C6's case: only MICROCMS_API_KEY is missing, and the run has exited.
C6_Witness ==
    /\ pc = "exited"
    /\ env = [var \in Settings |->
                IF var = "MICROCMS_API_KEY" THEN None ELSE SetValue]
    /\ xml_exists
    /\ error = "ValueError"
    /\ exit_status = <<"1">>

\* The items of a tree that lack their type marker or their status marker.
Markerless(tree) ==
    {i \in 1..Len(tree.items) :
        tree.items[i].post_type = NoElem \/ tree.items[i].status = NoElem}

\* C7, as stated: a document with an item lacking a marker makes the parse
\* raise, so the parse never returns records for such a document.
C7_MissingMarkerRaises ==
    pc = "parse_return" => Markerless(root) = {}

\* C7, amended: an item lacking its type or status marker is skipped like any
\* item that fails the filter: it is never what the parse raises on, it is in
\* no record, and the published posts around it are all in the records.
C7_MissingMarkerSkipped ==
    /\ (pc = "main_except" /\ error = "AttributeError") =>
          raised_at \in 1..Len(root.items) /\ raised_at \notin Markerless(root)
    /\ pc = "parse_return" =>
          /\ \A i \in Markerless(root) :
                \A j \in 1..Len(posts) : posts[j].title # TitleAt(i)
          /\ \A i \in PostsWithStatus(root, PUBLISH) :
                \E j \in 1..Len(posts) : posts[j].title = TitleAt(i)

\* C7's case: the first item has no type marker, the second no status marker,
\* the third is a published post; the parse returns the third alone.
C7_Witness ==
    /\ pc = "parse_return"
    /\ Len(root.items) = 3
    /\ root.items[1].post_type = NoElem
    /\ root.items[2].status = NoElem
    /\ Titles(posts) = <<TitleAt(3)>>

\* C8: a record counts as a success exactly when its request was answered
\* 201, and as a failure for any other status and for a fault; so the counts
\* returned are the numbers of such records: (3, 0) for three 201, (2, 1) with
\* all three sent when only the second is answered 500.
C8_CountedByStatus ==
    /\ pc \in {"upload_loop", "summary", "done"} =>
          /\ success_count = Cardinality(Created201(outcomes))
          /\ failed_count = Cardinality(NotCreated(outcomes))
    /\ (pc = "summary" /\ outcomes = <<Created, Created, Created>>) =>
          success_count = 3 /\ failed_count = 0
    /\ (pc = "summary" /\ outcomes = <<Created, ServerError, Created>>) =>
          success_count = 2 /\ failed_count = 1 /\ Len(requests) = 3

\* C8's case: only the second of three records is answered 500.
C8_Witness ==
    /\ pc = "summary"
    /\ outcomes = <<Created, ServerError, Created>>
    /\ success_count = 2 /\ failed_count = 1

\* The published posts of a tree that lack the element of a field the parse
\* extracts.
Unextractable(tree) ==
    {i \in PostsWithStatus(tree, PUBLISH) :
        \/ tree.items[i].title = NoElem
        \/ tree.items[i].content = NoElem
        \/ tree.items[i].date = NoElem}

ParseErrors == {"ParseError", "AttributeError"}

\* C9: a fault while reading the export (a document not well-formed, a
\* published post lacking title, content or date) reaches main, which exits
\* with status 1, and no request has been issued, whatever came before the
\* faulty item; and a request is only ever issued once the parse has returned.
C9_ParseFaultIsFatal ==
    /\ error \in ParseErrors =>
          Aborted /\ requests = <<>> /\ events = <<>>
                  /\ (pc = "exited" => exit_status = <<"1">>)
    /\ (root = Malformed \/ (root # NoTree /\ Unextractable(root) # {})) =>
          pc = "main_except" /\ error \in ParseErrors
    /\ requests # <<>> => root = NoTree /\ error \notin ParseErrors

\* C9's case: a published post, then one without a title: the run has exited
\* with status 1, the first record built and no request issued.
C9_Witness ==
    /\ pc = "exited"
    /\ error = "AttributeError"
    /\ raised_at = 2
    /\ Len(posts) = 1
    /\ requests = <<>>
    /\ exit_status = <<"1">>

\* A text holds a character reference: "&" followed by a name html.unescape
\* knows.
HasReference(s) ==
    \E i \in 1..Len(s), name \in DOMAIN html5 :
        /\ s[i] = "&"
        /\ i + Len(name) <= Len(s)
        /\ SubSeq(s, i + 1, i + Len(name)) = name

\* C10: clean_content never raises; None gives None and "" gives ""; a second
\* application changes nothing when the first result holds no reference; and
\* "A &amp; B" gives "A & B".
C10_CleanContent ==
    /\ once # TypeError /\ twice # TypeError
    /\ (once # Unset /\ text = None) => once = None
    /\ (once # Unset /\ text = <<>>) => once = <<>>
    /\ (once # Unset /\ text = ExampleBody) => once = ExampleDecoded
    /\ (twice # Unset /\ ~HasReference(once)) => twice = once

\* C10's case: "A &amp; B" cleaned twice is "A & B".
C10_Witness ==
    /\ text = ExampleBody
    /\ once = ExampleDecoded
    /\ twice = ExampleDecoded

====
